---- MODULE Spec2Model ----
(***************************************************************************)
(* Retrieval core of the support chatbot: the chunker                      *)
(* (document_processor.py) and the persistent similarity index             *)
(* (vector_store.py).                                                      *)
(*                                                                         *)
(* Strings are sequences of one-character strings, so that split, strip    *)
(* and join are computed as Python computes them.  Embedding vectors are   *)
(* short integer tuples; a unit vector is represented scaled by 5, so that *)
(* inner products stay integers.                                           *)
(***************************************************************************)
EXTENDS Integers, Sequences, FiniteSets, TLC

VARIABLES
    index,          \* self.index: the stored vectors, in insertion order
    documents,      \* self.documents: the metadata list
    diskIndex,      \* the file vector_index.faiss
    diskDocs,       \* the file documents.pkl
    call,           \* the last completed call: operation, arguments, outcome
    source,         \* chunker runs: the file handed to process_file
    chunked,        \* chunker runs: what process_file returned for it
    lucie,          \* app.py: whether the chat handler was constructed
    conversations,  \* the table conversations, in order of id
    messages,       \* the table messages, in order of id
    now,            \* datetime.utcnow()
    reply,          \* the response to the last /chat request
    adder,          \* the thread running add_documents: position and locals
    searcher        \* the thread running search: position and locals

vars == <<index, documents, diskIndex, diskDocs, call, source, chunked,
          lucie, conversations, messages, now, reply, adder, searcher>>

storeVars == <<index, documents, diskIndex, diskDocs>>

webVars == <<lucie, conversations, messages, now, reply>>

threadVars == <<adder, searcher>>

(***************************************************************************)
(* Bounds of the model.                                                    *)
(***************************************************************************)
MaxTextLen == 6     \* longest plain-text content handed to the chunker alone
MaxRows == 7        \* most rows of a tabular file handed to the chunker alone
MaxVectors == 4     \* cap on the stored vectors and on the metadata records
MaxTopK == 2        \* largest top_k a search asks for
\* batch_size is 50 in the source; scaled down so that a file of three
\* chunks needs a second request to the embedding provider.
batch_size == 2

max_lines_per_chunk == 5

(***************************************************************************)
(* Strings.                                                                *)
(***************************************************************************)
NL == "\n"
SP == " "
Whitespace == {SP, NL}

Min(a, b) == IF a <= b THEN a ELSE b

\* s[i..] (1-based), empty when i is past the end
Drop(s, i) == SubSeq(s, i, Len(s))

RECURSIVE LStrip(_)
LStrip(s) ==
    IF s # <<>> /\ Head(s) \in Whitespace THEN LStrip(Tail(s)) ELSE s

RECURSIVE RStrip(_)
RStrip(s) ==
    IF s # <<>> /\ s[Len(s)] \in Whitespace
    THEN RStrip(SubSeq(s, 1, Len(s) - 1))
    ELSE s

\* str.strip()
Strip(s) == RStrip(LStrip(s))

\* str.split("\n\n"): cut at each occurrence of the separator, scanning from
\* the left; occurrences do not overlap
RECURSIVE SplitParagraphs(_)
SplitParagraphs(s) ==
    LET hits == {i \in 1..(Len(s) - 1) : s[i] = NL /\ s[i + 1] = NL}
    IN  IF hits = {}
        THEN <<s>>
        ELSE LET i == CHOOSE j \in hits : \A h \in hits : j <= h
             IN  <<SubSeq(s, 1, i - 1)>> \o SplitParagraphs(Drop(s, i + 2))

\* sep.join(parts)
RECURSIVE Join(_, _)
Join(parts, sep) ==
    IF parts = <<>> THEN <<>>
    ELSE IF Len(parts) = 1 THEN parts[1]
    ELSE parts[1] \o sep \o Join(Tail(parts), sep)

\* str.lower() on the extensions that occur
Lower(ext) ==
    CASE ext = ".TXT" -> ".txt"
      [] ext = ".MD" -> ".md"
      [] ext = ".CSV" -> ".csv"
      [] ext = ".PDF" -> ".pdf"
      [] OTHER -> ext

(***************************************************************************)
(* The chunker: DocumentProcessor.process_file.                            *)
(* A file is [dir, stem, ext, text, rows]: text is what f.read() returns,  *)
(* rows what csv.reader yields (each row a sequence of cells).             *)
(***************************************************************************)

\* lines 18-24: enumerate the paragraphs, keep the non-blank ones
RECURSIVE TextChunks(_, _)
TextChunks(paragraphs, i) ==
    IF paragraphs = <<>> THEN <<>>
    ELSE LET para == Head(paragraphs)
             rest == TextChunks(Tail(paragraphs), i + 1)
         IN  IF Strip(para) # <<>>
             THEN <<[text |-> Strip(para), chunk_index |-> i]>> \o rest
             ELSE rest

\* line 34: " | ".join(cell.strip() for cell in row if cell)
RowLine(row) ==
    Join([k \in 1..Len(SelectSeq(row, LAMBDA c : c # <<>>)) |->
             Strip(SelectSeq(row, LAMBDA c : c # <<>>)[k])],
         <<SP, "|", SP>>)

\* the row loop with the buffer flushed one line late (> for >=)
RECURSIVE CsvChunksLate(_, _, _)
CsvChunksLate(rows, buffer, chunk_index) ==
    IF rows = <<>>
    THEN IF buffer # <<>>
         THEN <<[text |-> Join(buffer, <<SP>>), chunk_index |-> chunk_index]>>
         ELSE <<>>
    ELSE LET line == RowLine(Head(rows))
             buf == IF line # <<>> THEN Append(buffer, line) ELSE buffer
         IN  IF Len(buf) > max_lines_per_chunk
             THEN <<[text |-> Join(buf, <<SP>>), chunk_index |-> chunk_index]>>
                      \o CsvChunksLate(Tail(rows), <<>>, chunk_index + 1)
             ELSE CsvChunksLate(Tail(rows), buf, chunk_index)

\* lines 33-51: the row loop, then the flush of the last buffer
RECURSIVE CsvChunks(_, _, _)
CsvChunks(rows, buffer, chunk_index) ==
    IF rows = <<>>
    THEN IF buffer # <<>>
         THEN <<[text |-> Join(buffer, <<SP>>), chunk_index |-> chunk_index]>>
         ELSE <<>>
    ELSE LET line == RowLine(Head(rows))
             buf == IF line # <<>> THEN Append(buffer, line) ELSE buffer
         IN  IF Len(buf) >= max_lines_per_chunk
             THEN <<[text |-> Join(buf, <<SP>>), chunk_index |-> chunk_index]>>
                      \o CsvChunks(Tail(rows), <<>>, chunk_index + 1)
             ELSE CsvChunks(Tail(rows), buf, chunk_index)

\* readable = FALSE: open() raises, the handler returns the empty list
process_file(f, readable) ==
    LET ext == Lower(f.ext)
    IN  IF ext = ".txt" \/ ext = ".md"
        THEN IF readable THEN TextChunks(SplitParagraphs(f.text), 0) ELSE <<>>
        ELSE IF ext = ".csv"
        THEN IF readable THEN CsvChunks(f.rows, <<>>, 0) ELSE <<>>
        ELSE <<>>

(***************************************************************************)
(* The embedding provider and the similarity engine.                       *)
(***************************************************************************)

\* openai_client.embeddings.create for one text: a fixed test provider that
\* answers with vectors of integer length
Embed(text) ==
    IF text = <<>> THEN <<5, 0>>
    ELSE CASE Head(text) = "a" -> IF Len(text) = 1 THEN <<6, 8>> ELSE <<8, 6>>
           [] Head(text) = "b" -> <<0, 2>>
           [] OTHER -> <<4, 3>>

RECURSIVE SumSquares(_)
SumSquares(v) == IF v = <<>> THEN 0 ELSE Head(v) * Head(v) + SumSquares(Tail(v))

\* the integer square root
RECURSIVE Sqrt(_, _)
Sqrt(x, n) == IF (n + 1) * (n + 1) > x THEN n ELSE Sqrt(x, n + 1)

Norm(v) == Sqrt(SumSquares(v), 0)

Scaled(v, n) == IF n = 0 THEN v ELSE [k \in 1..Len(v) |-> (v[k] * 5) \div n]

\* faiss.normalize_L2 on one row; the unit length is represented as 5
normalize_L2(v) == Scaled(v, Norm(v))

RECURSIVE InnerProduct(_, _)
InnerProduct(u, v) ==
    IF u = <<>> \/ v = <<>> THEN 0
    ELSE Head(u) * Head(v) + InnerProduct(Tail(u), Tail(v))

\* _get_embeddings: one request per batch, in order; the request numbered
\* failBatch raises (0: none does), which ends the call with what was
\* collected so far discarded by the caller
RECURSIVE EmbedBatches(_, _, _, _)
EmbedBatches(texts, b, failBatch, all_embeddings) ==
    IF texts = <<>>
    THEN [raised |-> FALSE, embeddings |-> all_embeddings]
    ELSE IF b = failBatch
    THEN [raised |-> TRUE, embeddings |-> all_embeddings]
    ELSE LET batch == SubSeq(texts, 1, Min(batch_size, Len(texts)))
         IN  EmbedBatches(Drop(texts, batch_size + 1), b + 1, failBatch,
                          all_embeddings \o [k \in 1..Len(batch) |-> Embed(batch[k])])

get_embeddings(texts, failBatch) == EmbedBatches(texts, 1, failBatch, <<>>)

(***************************************************************************)
(* The two files.  A stored vector is [vec, text]: vec is the unit vector, *)
(* text records which chunk text it was computed from (the engine itself   *)
(* keeps only vec; text is carried along to state the pairing claims).     *)
(***************************************************************************)
AbsentIndex == [state |-> "absent", d |-> 0, ntotal |-> 0, xb |-> <<>>, texts |-> <<>>]
CorruptIndex == [state |-> "corrupt", d |-> 0, ntotal |-> 0, xb |-> <<>>, texts |-> <<>>]
AbsentDocs == [state |-> "absent", items |-> <<>>]
CorruptDocs == [state |-> "corrupt", items |-> <<>>]

RECURSIVE Flatten(_)
Flatten(rows) == IF rows = <<>> THEN <<>> ELSE Head(rows) \o Flatten(Tail(rows))

\* faiss.write_index: the flat index is its dimension, its size and the
\* vectors' coordinates one after another
write_index(ix) ==
    [state |-> "ok",
     d |-> IF ix = <<>> THEN 0 ELSE Len(ix[1].vec),
     ntotal |-> Len(ix),
     xb |-> Flatten([k \in 1..Len(ix) |-> ix[k].vec]),
     texts |-> [k \in 1..Len(ix) |-> ix[k].text]]

\* read_index that loses the last vector
read_index_short(file) ==
    [k \in 1..(file.ntotal - 1) |->
        [vec |-> SubSeq(file.xb, (k - 1) * file.d + 1, k * file.d),
         text |-> file.texts[k]]]

\* faiss.read_index
read_index(file) ==
    [k \in 1..file.ntotal |->
        [vec |-> SubSeq(file.xb, (k - 1) * file.d + 1, k * file.d),
         text |-> file.texts[k]]]

\* pickle.dump of the list of dicts: one tuple of values per record
dump(docs) ==
    [state |-> "ok",
     items |-> [k \in 1..Len(docs) |->
                  <<docs[k].text, docs[k].source_file, docs[k].chunk_index,
                    docs[k].index_id>>]]

\* pickle.load
load(file) ==
    [k \in 1..Len(file.items) |->
        [text |-> file.items[k][1], source_file |-> file.items[k][2],
         chunk_index |-> file.items[k][3], index_id |-> file.items[k][4]]]

SaveOutcomes == {"ok", "index_unwritten", "index_partial", "docs_unwritten",
                 "docs_partial"}

\* _save_index.  sv says how the two writes go: a write that raises either
\* left its file as it was (it could not be opened) or truncated it; after
\* write_index raises, documents.pkl is not written at all
_save_index(s, sv) ==
    CASE sv = "ok" ->
            [s EXCEPT !.diskIndex = write_index(s.index),
                      !.diskDocs = dump(s.documents)]
      [] sv = "index_unwritten" -> s
      [] sv = "index_partial" -> [s EXCEPT !.diskIndex = CorruptIndex]
      [] sv = "docs_unwritten" -> [s EXCEPT !.diskIndex = write_index(s.index)]
      [] OTHER ->
            [s EXCEPT !.diskIndex = write_index(s.index), !.diskDocs = CorruptDocs]

ReadOutcomes == {"ok", "index_error", "docs_error"}

\* _load_index.  rd says whether a read raises although the file is intact
_load_index(s, rd) ==
    IF s.diskIndex.state = "absent" \/ s.diskDocs.state = "absent" THEN s
    ELSE IF s.diskIndex.state = "corrupt" \/ rd = "index_error" THEN s
    ELSE IF s.diskDocs.state = "corrupt" \/ rd = "docs_error"
    THEN [s EXCEPT !.index = read_index(s.diskIndex)]
    ELSE [s EXCEPT !.index = read_index(s.diskIndex),
                   !.documents = load(s.diskDocs)]

(***************************************************************************)
(* add_documents.                                                          *)
(***************************************************************************)
\* os.path.basename(file_path)
basename(f) == <<f.stem, f.ext>>

\* lines 80-82: normalise the embeddings and add them to the index
index_add(ix, chunks, embeddings) ==
    ix \o [k \in 1..Len(embeddings) |->
             [vec |-> normalize_L2(embeddings[k]), text |-> chunks[k].text]]

\* the records numbered by their place in the file (index_id = i)
append_documents_offset(docs, chunks, f) ==
    docs \o [k \in 1..Len(chunks) |->
               [text |-> chunks[k].text,
                source_file |-> basename(f),
                chunk_index |-> chunks[k].chunk_index,
                index_id |-> k - 1]]

\* lines 84-90: one record per chunk
RECURSIVE append_documents(_, _, _)
append_documents(docs, chunks, f) ==
    IF chunks = <<>> THEN docs
    ELSE append_documents(
             Append(docs, [text |-> Head(chunks).text,
                           source_file |-> basename(f),
                           chunk_index |-> Head(chunks).chunk_index,
                           index_id |-> Len(docs)]),
             Tail(chunks), f)

\* What can happen to one file: it cannot be read, a request to the
\* embedding provider raises, or the file is inserted and the save goes as
\* `save` says
ReadFails == [read |-> FALSE, failBatch |-> 0, save |-> "ok"]
Outcomes ==
    {ReadFails}
    \cup {[read |-> TRUE, failBatch |-> b, save |-> "ok"] : b \in {1, 2}}
    \cup {[read |-> TRUE, failBatch |-> 0, save |-> sv] : sv \in SaveOutcomes}

\* add_documents that adds each batch to the index as soon as it is
\* embedded, so that a later batch's failure leaves the earlier ones stored
add_documents_eager(s, f, o) ==
    LET chunks == process_file(f, o.read)
        texts == [k \in 1..Len(chunks) |-> chunks[k].text]
        got == get_embeddings(texts, o.failBatch)
        done == SubSeq(chunks, 1, Len(got.embeddings))
    IN  IF chunks = <<>>
        THEN [s |-> s, ret |-> FALSE, persist |-> "none", cause |-> "no_chunks"]
        ELSE IF got.raised
        THEN [s |-> [s EXCEPT
                       !.index = index_add(s.index, done, got.embeddings),
                       !.documents = append_documents(s.documents, done, f)],
              ret |-> FALSE, persist |-> "none", cause |-> "embedding"]
        ELSE [s |-> _save_index(
                        [s EXCEPT
                           !.index = index_add(s.index, chunks, got.embeddings),
                           !.documents = append_documents(s.documents, chunks, f)],
                        o.save),
              ret |-> TRUE,
              persist |-> o.save,
              cause |-> ""]

\* add_documents(file_path) under outcome o: the state after the call, the
\* value returned, how the persist attempt went ("none": not attempted) and
\* what the log says made the call fail
add_documents(s, f, o) ==
    LET chunks == process_file(f, o.read)
        texts == [k \in 1..Len(chunks) |-> chunks[k].text]
        got == get_embeddings(texts, o.failBatch)
    IN  IF chunks = <<>>
        THEN [s |-> s, ret |-> FALSE, persist |-> "none", cause |-> "no_chunks"]
        ELSE IF got.raised
        THEN [s |-> s, ret |-> FALSE, persist |-> "none", cause |-> "embedding"]
        ELSE [s |-> _save_index(
                        [s EXCEPT
                           !.index = index_add(s.index, chunks, got.embeddings),
                           !.documents = append_documents(s.documents, chunks, f)],
                        o.save),
              ret |-> TRUE,
              persist |-> o.save,
              cause |-> ""]

(***************************************************************************)
(* load_documents_from_directory.                                          *)
(***************************************************************************)
extensions_valides == {".txt", ".md", ".csv"}

Qualifies(f) == ~f.isdir /\ Lower(f.ext) \in extensions_valides

\* the loop over os.listdir left at the first file that fails
RECURSIVE LoadEntriesBreak(_, _, _, _, _, _)
LoadEntriesBreak(s, entries, outcomes, success_count, persist, attempts) ==
    IF entries = <<>>
    THEN [s |-> s, ret |-> success_count > 0, persist |-> persist,
          attempts |-> attempts]
    ELSE IF ~Qualifies(Head(entries))
    THEN LoadEntriesBreak(s, Tail(entries), Tail(outcomes), success_count,
                          persist, attempts)
    ELSE LET r == add_documents(s, Head(entries), Head(outcomes))
         IN  IF ~r.ret
             THEN [s |-> s, ret |-> success_count > 0, persist |-> persist,
                   attempts |-> Append(attempts, [file |-> basename(Head(entries)),
                                                  ret |-> FALSE])]
             ELSE LoadEntriesBreak(r.s, Tail(entries), Tail(outcomes),
                                   success_count + 1,
                                   IF r.persist = "none" THEN persist ELSE r.persist,
                                   Append(attempts, [file |-> basename(Head(entries)),
                                                     ret |-> TRUE]))

\* lines 108-121: the loop over os.listdir; outcomes[k] is what happens to
\* the k-th entry if it is handed to add_documents; attempts lists the calls
\* of add_documents that were made, with what each returned
RECURSIVE LoadEntries(_, _, _, _, _, _)
LoadEntries(s, entries, outcomes, success_count, persist, attempts) ==
    IF entries = <<>>
    THEN [s |-> s, ret |-> success_count > 0, persist |-> persist,
          attempts |-> attempts]
    ELSE IF ~Qualifies(Head(entries))
    THEN LoadEntries(s, Tail(entries), Tail(outcomes), success_count, persist,
                     attempts)
    ELSE LET r == add_documents(s, Head(entries), Head(outcomes))
         IN  LoadEntries(r.s, Tail(entries), Tail(outcomes),
                         IF r.ret THEN success_count + 1 ELSE success_count,
                         IF r.persist = "none" THEN persist ELSE r.persist,
                         Append(attempts, [file |-> basename(Head(entries)),
                                           ret |-> r.ret]))

\* dir is [exists, entries]: whether os.path.exists holds and what
\* os.listdir returns
load_documents_from_directory(s, dir, outcomes) ==
    IF ~dir.exists
    THEN [s |-> s, ret |-> FALSE, persist |-> "none", attempts |-> <<>>]
    ELSE LoadEntries(s, dir.entries, outcomes, 0, "none", <<>>)

(***************************************************************************)
(* search and get_stats.                                                   *)
(***************************************************************************)
Score(ix, qv, p) == InnerProduct(qv, ix[p].vec)

\* self.index.search(query_vector, k): the k best positions by inner
\* product, best first; the engine fixes no order among equal scores
RECURSIVE BestFirst(_, _, _)
BestFirst(score, left, k) ==
    IF k = 0 THEN {<<>>}
    ELSE UNION {{<<p>> \o rest : rest \in BestFirst(score, left \ {p}, k - 1)} :
                   p \in {b \in left : \A q \in left : score[b] >= score[q]}}

faiss_search(ix, qv, k) ==
    BestFirst([p \in 1..Len(ix) |-> Score(ix, qv, p)], 1..Len(ix), k)

\* lines 137-144: positions are 1-based here, so position p is idx = p - 1
RECURSIVE CollectResults(_, _, _, _, _)
CollectResults(ix, docs, qv, hits, i) ==
    IF i > Len(hits) THEN <<>>
    ELSE LET rest == CollectResults(ix, docs, qv, hits, i + 1)
         IN  IF hits[i] <= Len(docs)
             THEN <<[text |-> docs[hits[i]].text,
                     source_file |-> docs[hits[i]].source_file,
                     chunk_index |-> docs[hits[i]].chunk_index,
                     index_id |-> docs[hits[i]].index_id,
                     similarity_score |-> Score(ix, qv, hits[i]),
                     rank |-> i]>> \o rest
             ELSE rest

\* the hits the engine may answer with; none when the call returns early
\* (empty index) or raises (the query's embedding fails, or top_k = 0)
SearchHits(s, query, top_k, embedOk) ==
    IF Len(s.index) = 0 \/ ~embedOk \/ top_k = 0
    THEN {<<>>}
    ELSE faiss_search(s.index, normalize_L2(Embed(query)),
                      Min(top_k, Len(s.index)))

search(s, query, hits) ==
    CollectResults(s.index, s.documents, normalize_L2(Embed(query)), hits, 1)

\* the body of the try without the .copy() of line 141: the records
\* returned are the dicts of self.documents themselves
search_try_alias(s, query, top_k, embedOk, hits) ==
    IF Len(s.index) = 0
    THEN [raised |-> FALSE, results |-> <<>>, shared |-> {}]
    ELSE IF ~embedOk \/ top_k = 0
    THEN [raised |-> TRUE, results |-> <<>>, shared |-> {}]
    ELSE [raised |-> FALSE, results |-> search(s, query, hits),
          shared |-> {hits[i] : i \in 1..Len(hits)} \cap 1..Len(s.documents)]

\* lines 128-147, the body of the try: what it returns, or that it raises
\* (the request for the query's embedding fails, or the engine is asked for
\* no neighbour); shared is the set of positions of self.documents whose dict
\* is also a returned record: none, each record is a copy (line 141)
search_try(s, query, top_k, embedOk, hits) ==
    IF Len(s.index) = 0
    THEN [raised |-> FALSE, results |-> <<>>, shared |-> {}]
    ELSE IF ~embedOk \/ top_k = 0
    THEN [raised |-> TRUE, results |-> <<>>, shared |-> {}]
    ELSE [raised |-> FALSE, results |-> search(s, query, hits), shared |-> {}]

\* a handler that logs and raises again
search_reraise(t) ==
    t

\* lines 149-151: whatever is raised is logged and [] is returned
search_except(t) ==
    IF t.raised THEN [raised |-> FALSE, results |-> <<>>, shared |-> {}] ELSE t

\* search without the test of line 128 and without the handler
search_call_bare(s, query, top_k, embedOk, hits) ==
    IF ~embedOk \/ top_k = 0 \/ Len(s.index) = 0
    THEN [raised |-> TRUE, results |-> <<>>, shared |-> {}]
    ELSE [raised |-> FALSE, results |-> search(s, query, hits), shared |-> {}]

\* search(query, top_k) as its caller sees it
search_call(s, query, top_k, embedOk, hits) ==
    search_except(search_try(s, query, top_k, embedOk, hits))

get_stats(s) ==
    [total_documents |-> Len(s.documents), index_size |-> Len(s.index)]

(***************************************************************************)
(* Construction: VectorStore.__init__ in a new process.                    *)
(***************************************************************************)
\* lines 24-25: the new object's empty index and list
BlankMemory(s) == [s EXCEPT !.index = <<>>, !.documents = <<>>]

__init__(s, rd, dir, outcomes) ==
    LET loaded == _load_index(BlankMemory(s), rd)
    IN  IF Len(loaded.index) = 0
        THEN LET r == load_documents_from_directory(loaded, dir, outcomes)
             IN  [s |-> r.s, persist |-> r.persist, loaded |-> loaded]
        ELSE [s |-> loaded, persist |-> "none", loaded |-> loaded]

(***************************************************************************)
(* The files of the model.                                                 *)
(***************************************************************************)
File(dir, stem, ext, text, rows) ==
    [dir |-> dir, stem |-> stem, ext |-> ext, isdir |-> FALSE,
     text |-> text, rows |-> rows]

\* "a\n\n\n\nb\n\nc": three paragraphs with text and a blank one
Notes == File("./data", "notes", ".txt",
              <<"a", NL, NL, NL, NL, "b", NL, NL, "c">>, <<>>)
Guide == File("./data", "guide", ".pdf", <<"a">>, <<>>)
Blank == File("./data", "blank", ".md", <<NL, SP, NL>>, <<>>)
Sub == [dir |-> "./data", stem |-> "sub", ext |-> "", isdir |-> TRUE,
        text |-> <<>>, rows |-> <<>>]
\* three rows, the second a blank line
Sizes == File("./data", "sizes", ".CSV", <<>>,
              <<<<<<"a">>>>, <<>>, <<<<"b">>, <<"c">>>>>>)

\* os.listdir("./data")
DataEntries == <<Blank, Guide, Sub, Notes, Sizes>>

MissingDir == [exists |-> FALSE, entries |-> <<>>]
DataDir == [exists |-> TRUE, entries |-> DataEntries]
Dirs == {MissingDir, DataDir}

Files == {Notes, Sizes, Guide, Blank}

Queries == {<<"a">>, <<"b">>, <<"c">>}

AllGoesWell == [read |-> TRUE, failBatch |-> 0, save |-> "ok"]

\* the outcomes that differ for file f: a request to the provider past the
\* file's last batch is never made
OutcomesFor(f) ==
    IF process_file(f, TRUE) = <<>>
    THEN {AllGoesWell, ReadFails}
    ELSE {o \in Outcomes :
             o.failBatch * batch_size < Len(process_file(f, TRUE)) + batch_size}

\* one outcome per entry of a directory; an entry that is skipped or holds
\* no chunk has nothing that can go differently
RECURSIVE OutcomeSeqs(_)
OutcomeSeqs(entries) ==
    IF entries = <<>> THEN {<<>>}
    ELSE {<<o>> \o rest :
             o \in IF Qualifies(Head(entries))
                      /\ process_file(Head(entries), TRUE) # <<>>
                   THEN OutcomesFor(Head(entries)) ELSE {AllGoesWell},
             rest \in OutcomeSeqs(Tail(entries))}

RECURSIVE ChunkCount(_)
ChunkCount(entries) ==
    IF entries = <<>> THEN 0
    ELSE (IF Qualifies(Head(entries))
          THEN Len(process_file(Head(entries), TRUE)) ELSE 0)
         + ChunkCount(Tail(entries))

\* the directories a call may be given, with what may happen to the entries
\* and how many chunks the entries hold
DirCases ==
    {[dir |-> d, outcomeSeqs |-> OutcomeSeqs(d.entries),
      chunkCount |-> ChunkCount(d.entries)] : d \in Dirs}

FileCases ==
    {[file |-> f, outcomes |-> OutcomesFor(f),
      chunkCount |-> Len(process_file(f, TRUE))] : f \in Files}

(***************************************************************************)
(* State and actions.                                                      *)
(***************************************************************************)
State == [index |-> index, documents |-> documents,
          diskIndex |-> diskIndex, diskDocs |-> diskDocs]

BlankDisk == [index |-> <<>>, documents |-> <<>>,
              diskIndex |-> AbsentIndex, diskDocs |-> AbsentDocs]

NoFile == [dir |-> "", stem |-> "", ext |-> "", isdir |-> FALSE,
           text |-> <<>>, rows |-> <<>>]

\* the record of the call that has just completed, "none" once its caller
\* has taken the result; the fields an operation does not use keep these
\* values
NoCall ==
    [op |-> "none", ret |-> FALSE, cause |-> "", failBatch |-> 0,
     persist |-> "none", restored |-> "nothing", mismatch |-> FALSE,
     query |-> <<>>, top_k |-> 0, embedOk |-> FALSE, hits |-> <<>>,
     results |-> <<>>, stats |-> [total_documents |-> 0, index_size |-> 0],
     directory |-> MissingDir, attempts |-> <<>>, raised |-> FALSE,
     shared |-> {}]

\* no /chat request has been answered
NoReply ==
    [status |-> 0, body |-> "", sid |-> <<>>, conversation |-> 0,
     reused |-> FALSE, asked |-> FALSE, question |-> <<>>, embedOk |-> FALSE,
     searched |-> FALSE, completed |-> FALSE]

\* the web application is not running
NoWeb ==
    /\ lucie = FALSE
    /\ conversations = <<>>
    /\ messages = <<>>
    /\ now = 0
    /\ reply = NoReply

\* a thread that runs nothing
NoThread == [pc |-> "idle"]

NoThreads ==
    /\ adder = NoThread
    /\ searcher = NoThread

Becomes(s) ==
    /\ index' = s.index
    /\ documents' = s.documents
    /\ diskIndex' = s.diskIndex
    /\ diskDocs' = s.diskDocs

\* which of the two files _load_index reads in full
Restored(s, rd) ==
    IF s.diskIndex.state = "absent" \/ s.diskDocs.state = "absent" THEN "nothing"
    ELSE IF s.diskIndex.state = "corrupt" \/ rd = "index_error" THEN "nothing"
    ELSE IF s.diskDocs.state = "corrupt" \/ rd = "docs_error" THEN "index"
    ELSE "both"

\* what a construction did: mismatch says that it read both files and that
\* they hold different counts
ConstructCall(r, before, rd) ==
    [NoCall EXCEPT
       !.op = "construct",
       !.persist = r.persist,
       !.restored = Restored(before, rd),
       !.mismatch = /\ Restored(before, rd) = "both"
                    /\ before.diskIndex.ntotal # Len(before.diskDocs.items)]

\* the first process starts on a disk without the two files
Init ==
    /\ source = NoFile
    /\ chunked = <<>>
    /\ NoWeb
    /\ NoThreads
    /\ \E c \in DirCases :
         \E outcomes \in c.outcomeSeqs :
            \E r \in {__init__(BlankDisk, "ok", c.dir, outcomes)} :
                /\ index = r.s.index
                /\ documents = r.s.documents
                /\ diskIndex = r.s.diskIndex
                /\ diskDocs = r.s.diskDocs
                /\ call = ConstructCall(r, BlankDisk, "ok")

\* the process ends and a new one constructs the store from the files; what
\* happens to the entries of ./data matters only if they are loaded
Construct ==
    /\ call.op = "none"
    /\ \E c \in DirCases, rd \in ReadOutcomes :
         /\ c.chunkCount <= MaxVectors
         /\ \E outcomes \in IF Len(_load_index(BlankMemory(State), rd).index) = 0
                              THEN c.outcomeSeqs
                              ELSE {[k \in 1..Len(c.dir.entries) |-> AllGoesWell]} :
            \E r \in {__init__(State, rd, c.dir, outcomes)} :
                /\ Becomes(r.s)
                /\ call' = ConstructCall(r, State, rd)
    /\ UNCHANGED <<source, chunked, webVars, threadVars>>

AddDocuments ==
    /\ call.op = "none"
    /\ \E c \in FileCases :
         /\ Len(index) + c.chunkCount <= MaxVectors
         /\ Len(documents) + c.chunkCount <= MaxVectors
         /\ \E o \in c.outcomes :
            \E r \in {add_documents(State, c.file, o)} :
                /\ Becomes(r.s)
                /\ call' = [NoCall EXCEPT !.op = "add_documents",
                                          !.cause = r.cause,
                                          !.failBatch = IF r.cause = "embedding"
                                                        THEN o.failBatch ELSE 0,
                                          !.ret = r.ret,
                                          !.persist = r.persist]
    /\ UNCHANGED <<source, chunked, webVars, threadVars>>

LoadFromDirectory ==
    /\ call.op = "none"
    /\ \E c \in DirCases :
         /\ Len(index) + c.chunkCount <= MaxVectors
         /\ Len(documents) + c.chunkCount <= MaxVectors
         /\ \E outcomes \in c.outcomeSeqs :
              \E r \in {load_documents_from_directory(State, c.dir, outcomes)} :
                  /\ Becomes(r.s)
                  /\ call' = [NoCall EXCEPT !.op = "load_documents_from_directory",
                                            !.ret = r.ret, !.persist = r.persist,
                                            !.directory = c.dir,
                                            !.attempts = r.attempts]
    /\ UNCHANGED <<source, chunked, webVars, threadVars>>

Search ==
    /\ call.op = "none"
    /\ \E query \in Queries, top_k \in 0..MaxTopK, embedOk \in BOOLEAN :
         \E hits \in SearchHits(State, query, top_k, embedOk) :
            \E r \in {search_call(State, query, top_k, embedOk, hits)} :
                call' = [NoCall EXCEPT !.op = "search", !.query = query,
                                       !.top_k = top_k, !.embedOk = embedOk,
                                       !.hits = hits,
                                       !.results = r.results,
                                       !.raised = r.raised,
                                       !.shared = r.shared]
    /\ UNCHANGED <<storeVars, source, chunked, webVars, threadVars>>

GetStats ==
    /\ call.op = "none"
    /\ call' = [NoCall EXCEPT !.op = "get_stats", !.stats = get_stats(State)]
    /\ UNCHANGED <<storeVars, source, chunked, webVars, threadVars>>

\* what a caller writes into a record it was given
Scribble == <<"z">>

\* the caller of search overwrites the text of the first record returned;
\* the write reaches self.documents where the record is one of its dicts
MutateResult ==
    /\ call.op = "search"
    /\ call.results # <<>>
    /\ call.results[1].text # Scribble
    /\ call' = [call EXCEPT !.results[1].text = Scribble]
    /\ documents' =
          [k \in 1..Len(documents) |->
              IF k \in call.shared /\ k = call.hits[call.results[1].rank]
              THEN [documents[k] EXCEPT !.text = Scribble]
              ELSE documents[k]]
    /\ UNCHANGED <<index, diskIndex, diskDocs, source, chunked, webVars,
                   threadVars>>

\* the caller takes the result of the call; the next call can start
Return ==
    /\ call.op # "none"
    /\ call' = NoCall
    /\ UNCHANGED <<storeVars, source, chunked, webVars, threadVars>>

Next ==
    \/ Construct \/ AddDocuments \/ LoadFromDirectory \/ Search \/ GetStats
    \/ MutateResult \/ Return

Spec == Init /\ [][Next]_vars

\* one process, constructed where there is neither a saved index nor a
\* ./data directory, so that it starts empty
InitFresh ==
    /\ source = NoFile
    /\ chunked = <<>>
    /\ NoWeb
    /\ NoThreads
    /\ index = <<>>
    /\ documents = <<>>
    /\ diskIndex = AbsentIndex
    /\ diskDocs = AbsentDocs
    /\ call = ConstructCall(__init__(BlankDisk, "ok", MissingDir, <<>>), BlankDisk, "ok")

NextFresh == AddDocuments \/ LoadFromDirectory \/ Search \/ GetStats \/ Return

SpecFresh == InitFresh /\ [][NextFresh]_vars

(***************************************************************************)
(* The build step: build_vector_index.py, run as a new process.            *)
(***************************************************************************)
\* lines 10-13: the constructor, then load_documents_from_directory("data");
\* "./data" and "data" name the same directory
build_vector_index(s, rd, dir, first, second) ==
    LET store == __init__(s, rd, dir, first)
        success == load_documents_from_directory(store.s, dir, second)
    IN  [s |-> success.s, ret |-> success.ret,
         persist |-> IF success.persist = "none" THEN store.persist
                     ELSE success.persist]

\* the script is run where no index has been persisted; cause is "" when
\* nothing failed in either scan of the directory
BuildVectorIndex ==
    /\ call.op = "none"
    /\ diskIndex.state = "absent"
    /\ diskDocs.state = "absent"
    /\ \E c \in DirCases :
         \E first \in c.outcomeSeqs, second \in c.outcomeSeqs :
            \E r \in {build_vector_index(State, "ok", c.dir, first, second)} :
                /\ Becomes(r.s)
                /\ call' = [NoCall EXCEPT
                              !.op = "build_vector_index",
                              !.ret = r.ret,
                              !.persist = r.persist,
                              !.cause =
                                 IF \A k \in 1..Len(c.dir.entries) :
                                       first[k] = AllGoesWell /\ second[k] = AllGoesWell
                                 THEN "" ELSE "failure"]
    /\ UNCHANGED <<source, chunked, webVars, threadVars>>

InitBuild ==
    /\ source = NoFile
    /\ chunked = <<>>
    /\ NoWeb
    /\ NoThreads
    /\ index = <<>>
    /\ documents = <<>>
    /\ diskIndex = AbsentIndex
    /\ diskDocs = AbsentDocs
    /\ call = NoCall

NextBuild == BuildVectorIndex \/ Search \/ GetStats \/ Return

SpecBuild == InitBuild /\ [][NextBuild]_vars

(***************************************************************************)
(* The chat handler: chat_handler.py.  The fixed texts are named, not      *)
(* spelled out.                                                            *)
(***************************************************************************)
\* the functions defined in the body of class ChatHandler (lines 10-62);
\* get_response is defined at module level (line 66), and _build_context,
\* _create_user_prompt and _categorize_question inside get_response, after
\* its try statement
ChatHandlerMethods == {"__init__", "_get_quick_size_response"}

\* str.lower() on the letters that occur
LowerText(t) ==
    [k \in 1..Len(t) |->
        CASE t[k] = "C" -> "c" [] t[k] = "M" -> "m" [] OTHER -> t[k]]

\* keyword in question
Contains(t, w) ==
    \E i \in 1..(Len(t) - Len(w) + 1) : SubSeq(t, i, i + Len(w) - 1) = w

\* lines 72-74
size_keywords ==
    {<<"l", "o", "n", "g", "u", "e", "u", "r">>, <<"l", "o", "n", "g">>,
     <<"t", "a", "i", "l", "l", "e">>, <<"m", "e", "s", "u", "r", "e">>,
     <<"d", "i", "m", "e", "n", "s", "i", "o", "n">>, <<"c", "m">>}

IsSizeQuestion(question) ==
    \E w \in size_keywords : Contains(LowerText(question), w)

\* top_k of the search of line 81
context_top_k == 5

\* lines 108-119: a context is the fixed sentence or one part per document
_build_context(context_docs) ==
    IF context_docs = <<>> THEN <<"Aucun document">>
    ELSE [k \in 1..Len(context_docs) |-> context_docs[k].text]

\* line 100: re.sub(r"^\[[^\]]+\]\s*", "", answer.strip())
RECURSIVE AfterBracket(_)
AfterBracket(t) ==
    IF t = <<>> THEN <<>>
    ELSE IF Head(t) = "]" THEN LStrip(Tail(t))
    ELSE AfterBracket(Tail(t))

StripTag(answer) ==
    LET t == Strip(answer)
    IN  IF Len(t) >= 3 /\ t[1] = "[" /\ t[2] # "]"
           /\ \E i \in 3..Len(t) : t[i] = "]"
        THEN AfterBracket(Tail(t))
        ELSE t

\* what a call of get_response gives: the text returned (or that the call
\* raised), whether the index was searched and whether the completion
\* service was called
Answer(text, searched, completed) ==
    [raised |-> FALSE, text |-> text, searched |-> searched,
     completed |-> completed]

AttributeError ==
    [raised |-> TRUE, text |-> "", searched |-> FALSE, completed |-> FALSE]

\* lines 66-107, the function get_response applied to a ChatHandler.  o says
\* how the services answer: embedOk and hits for the search, completeOk and
\* completion for chat.completions.create
get_response(s, question, o) ==
    IF IsSizeQuestion(question) THEN Answer("size_guide", FALSE, FALSE)
    ELSE LET context_docs ==
                 search_call(s, question, context_top_k, o.embedOk, o.hits).results
         IN  IF "_build_context" \notin ChatHandlerMethods
             THEN Answer("error", TRUE, FALSE)
             ELSE IF Head(_build_context(context_docs)) = "Aucun document"
             THEN Answer("not_found", TRUE, FALSE)
             ELSE IF "_create_user_prompt" \notin ChatHandlerMethods
             THEN Answer("error", TRUE, FALSE)
             ELSE IF ~o.completeOk THEN Answer("error", TRUE, TRUE)
             ELSE Answer(StripTag(o.completion), TRUE, TRUE)

\* lucie.get_response(message, ...): the attribute is looked up on the
\* ChatHandler object
lucie_get_response(s, question, o) ==
    IF "get_response" \in ChatHandlerMethods
    THEN get_response(s, question, o)
    ELSE AttributeError

(***************************************************************************)
(* The web application: app.py.  Requests are handled one after another.   *)
(* Of a conversation only the columns id, session_id, started_at and       *)
(* last_activity_at are kept.                                              *)
(***************************************************************************)
\* IDLE_TIMEOUT is 30 minutes in the source; scaled down to clock ticks
IDLE_TIMEOUT == 2
MaxTime == 4            \* the clock stops here
MaxConversations == 2   \* no conversation is created beyond this many rows

\* line 77: the session id is cut to 64 characters
sid_width == 64

Take(t, n) == SubSeq(t, 1, Min(n, Len(t)))

\* uuid.uuid4().hex: a value no earlier request has drawn
Uuid(n) == <<"u", <<"1", "2", "3", "4", "5", "6", "7", "8", "9">>[n]>>

\* line 77
SessionId(payload, uuid) ==
    Take(IF payload.session_id # <<>> THEN payload.session_id
         ELSE IF payload.cookie # <<>> THEN payload.cookie
         ELSE uuid,
         sid_width)

\* lines 80-83: the rows of the session with the greatest last_activity_at
\* (.first() answers one of them); 0 stands for None
MostRecent(convs, sid) ==
    LET rows == {k \in 1..Len(convs) : convs[k].session_id = sid}
    IN  IF rows = {} THEN {0}
        ELSE {k \in rows : \A j \in rows :
                 convs[k].last_activity_at >= convs[j].last_activity_at}

\* get_or_create_conversation that leaves last_activity_at of a reused
\* conversation as it was
get_or_create_conversation_stale(convs, sid, t, first, commitOk) ==
    IF first = 0 \/ (t - convs[first].last_activity_at) > IDLE_TIMEOUT
    THEN [raised |-> ~commitOk,
          conversations |->
              IF commitOk
              THEN Append(convs, [id |-> Len(convs) + 1, session_id |-> sid,
                                  started_at |-> t, last_activity_at |-> t])
              ELSE convs,
          conv |-> Len(convs) + 1, reused |-> FALSE]
    ELSE [raised |-> ~commitOk, conversations |-> convs,
          conv |-> first, reused |-> TRUE]

\* lines 75-97.  first is the row the query of lines 80-83 answers; a commit
\* that raises stores nothing (the session is rolled back when the request
\* ends)
get_or_create_conversation(convs, sid, t, first, commitOk) ==
    IF first = 0 \/ (t - convs[first].last_activity_at) > IDLE_TIMEOUT
    THEN [raised |-> ~commitOk,
          conversations |->
              IF commitOk
              THEN Append(convs, [id |-> Len(convs) + 1, session_id |-> sid,
                                  started_at |-> t, last_activity_at |-> t])
              ELSE convs,
          conv |-> Len(convs) + 1, reused |-> FALSE]
    ELSE [raised |-> ~commitOk,
          conversations |->
              IF commitOk
              THEN [convs EXCEPT ![first].last_activity_at = t]
              ELSE convs,
          conv |-> first, reused |-> TRUE]

\* the response of /chat and the ghost record of what the handler did
Reply(status, body, sid, g, a, question, o) ==
    [status |-> status, body |-> body, sid |-> sid,
     conversation |-> g.conv, reused |-> g.reused,
     asked |-> question # <<>>, question |-> question,
     embedOk |-> question # <<>> /\ o.embedOk,
     searched |-> a.searched, completed |-> a.completed]

\* a request that is answered with nothing stored
Refused(web, r) ==
    [conversations |-> web.conversations, messages |-> web.messages,
     reply |-> r]

NoConversation == [raised |-> FALSE, conv |-> 0, reused |-> FALSE]

\* the handler that commits the user's message before it asks for the
\* response
chat_eager(web, s, req, o) ==
    LET message == Strip(req.message)
        sid == SessionId(req, Uuid(Len(web.conversations) + 1))
        g == get_or_create_conversation(web.conversations, sid, web.now,
                                        o.first, o.convCommit)
        a == lucie_get_response(s, message, o)
        user_msg == [conversation_id |-> g.conv, role |-> "user",
                     content |-> message]
        assistant_msg == [conversation_id |-> g.conv, role |-> "assistant",
                          content |-> a.text]
    IN  IF ~web.lucie
        THEN Refused(web, Reply(503, "unavailable", <<>>, NoConversation,
                                          AttributeError, <<>>, o))
        ELSE IF ~req.is_json \/ message = <<>>
        THEN Refused(web, Reply(400, "bad_request", <<>>, NoConversation,
                                          AttributeError, <<>>, o))
        ELSE IF g.raised
        THEN Refused(web, Reply(500, "difficulty", sid, NoConversation,
                                          AttributeError, <<>>, o))
        ELSE IF a.raised
        THEN [conversations |-> g.conversations,
              messages |-> Append(web.messages, user_msg),
              reply |-> Reply(500, "difficulty", sid, g, a, message, o)]
        ELSE IF ~o.msgCommit
        THEN [conversations |-> g.conversations,
              messages |-> Append(web.messages, user_msg),
              reply |-> Reply(500, "difficulty", sid, g, a, message, o)]
        ELSE [conversations |-> g.conversations,
              messages |-> web.messages \o <<user_msg, assistant_msg>>,
              reply |-> Reply(200, a.text, sid, g, a, message, o)]

\* lines 104-160: POST /chat.  web is the application's state, s the
\* store, req the request; o says how the commits and the services go
chat(web, s, req, o) ==
    LET message == Strip(req.message)
        sid == SessionId(req, Uuid(Len(web.conversations) + 1))
        g == get_or_create_conversation(web.conversations, sid, web.now,
                                        o.first, o.convCommit)
        a == lucie_get_response(s, message, o)
        user_msg == [conversation_id |-> g.conv, role |-> "user",
                     content |-> message]
        assistant_msg == [conversation_id |-> g.conv, role |-> "assistant",
                          content |-> a.text]
    IN  IF ~web.lucie
        THEN Refused(web, Reply(503, "unavailable", <<>>, NoConversation,
                                          AttributeError, <<>>, o))
        ELSE IF ~req.is_json \/ message = <<>>
        THEN Refused(web, Reply(400, "bad_request", <<>>, NoConversation,
                                          AttributeError, <<>>, o))
        ELSE IF g.raised
        THEN Refused(web, Reply(500, "difficulty", sid, NoConversation,
                                          AttributeError, <<>>, o))
        ELSE IF a.raised
        THEN [conversations |-> g.conversations, messages |-> web.messages,
              reply |-> Reply(500, "difficulty", sid, g, a, message, o)]
        ELSE IF ~o.msgCommit
        THEN [conversations |-> g.conversations, messages |-> web.messages,
              reply |-> Reply(500, "difficulty", sid, g, a, message, o)]
        ELSE [conversations |-> g.conversations,
              messages |-> web.messages \o <<user_msg, assistant_msg>>,
              reply |-> Reply(200, a.text, sid, g, a, message, o)]

Web == [lucie |-> lucie, conversations |-> conversations,
        messages |-> messages, now |-> now]

\* a blank message, a question and a question about sizes
Messages == {<<SP>>, <<"a", SP>>, <<"C", "M">>}

Requests ==
    {[is_json |-> TRUE, message |-> m, session_id |-> p, cookie |-> c] :
        m \in Messages, p \in {<<>>, <<"s">>}, c \in {<<>>, <<"t">>}}
    \cup {[is_json |-> FALSE, message |-> <<"a">>, session_id |-> <<"s">>,
           cookie |-> <<>>]}

\* what chat.completions.create may return
Completions == {<<"t">>, <<"[", "x", "]", SP, "t", SP>>}

\* how the commits and the services may go for request req: the first
\* commit fails, or it succeeds and the embedding request, the completion
\* request and the second commit each succeed or fail; the index is searched
\* only for a question that is not about sizes
ChatOutcomes(req) ==
    LET firsts == MostRecent(conversations,
                             SessionId(req, Uuid(Len(conversations) + 1)))
        hitSeqs == IF Strip(req.message) = <<>> \/ IsSizeQuestion(req.message)
                   THEN {<<>>}
                   ELSE SearchHits(State, Strip(req.message), context_top_k, TRUE)
    IN  {[convCommit |-> FALSE, msgCommit |-> TRUE, embedOk |-> TRUE,
          hits |-> <<>>, completeOk |-> TRUE, completion |-> <<"t">>,
          first |-> f] : f \in firsts}
        \cup {[convCommit |-> TRUE, msgCommit |-> mc, embedOk |-> e,
                hits |-> IF e THEN h ELSE <<>>, completeOk |-> c[1],
                completion |-> c[2], first |-> f] :
                 mc \in BOOLEAN, e \in BOOLEAN, h \in hitSeqs,
                 c \in {<<FALSE, <<"t">>>>} \cup {<<TRUE, t>> : t \in Completions},
                 f \in firsts}

Chat ==
    /\ reply = NoReply
    /\ \E req \in Requests :
         \E o \in ChatOutcomes(req) :
            \E r \in {chat(Web, State, req, o)} :
                /\ Len(r.conversations) <= MaxConversations
                /\ conversations' = r.conversations
                /\ messages' = r.messages
                /\ reply' = r.reply
    /\ UNCHANGED <<storeVars, call, source, chunked, lucie, now, threadVars>>

\* the clock advances; it never goes back
Tick ==
    /\ reply = NoReply
    /\ now < MaxTime
    /\ now' = now + 1
    /\ UNCHANGED <<storeVars, call, source, chunked, lucie, conversations,
                   messages, reply, threadVars>>

\* the response is sent; the next request can be handled
Respond ==
    /\ reply # NoReply
    /\ reply' = NoReply
    /\ UNCHANGED <<storeVars, call, source, chunked, lucie, conversations,
                   messages, now, threadVars>>

\* the application starts where no index has been persisted; lucie is None
\* when the initialisation of lines 58-73 raised
InitApp ==
    /\ source = NoFile
    /\ chunked = <<>>
    /\ call = NoCall
    /\ NoThreads
    /\ lucie \in BOOLEAN
    /\ conversations = <<>>
    /\ messages = <<>>
    /\ now = 0
    /\ reply = NoReply
    /\ \E c \in DirCases :
         \E r \in {__init__(BlankDisk, "ok", c.dir,
                            [k \in 1..Len(c.dir.entries) |-> AllGoesWell])} :
            /\ index = r.s.index
            /\ documents = r.s.documents
            /\ diskIndex = r.s.diskIndex
            /\ diskDocs = r.s.diskDocs

NextApp == Chat \/ Tick \/ Respond

SpecApp == InitApp /\ [][NextApp]_vars

(***************************************************************************)
(* Two request threads on one store, one in add_documents and one in       *)
(* search.  The class takes no lock, so the threads interleave between     *)
(* the statements that read or write self.index and self.documents.        *)
(***************************************************************************)
\* lines 73-81: the file is chunked and embedded; nothing is shared yet
AdderStart ==
    /\ adder.pc = "idle"
    /\ \E c \in FileCases :
         /\ Len(index) + c.chunkCount <= MaxVectors
         /\ \E o \in c.outcomes :
              LET chunks == process_file(c.file, o.read)
                  got == get_embeddings([k \in 1..Len(chunks) |-> chunks[k].text],
                                        o.failBatch)
              IN  adder' = IF chunks = <<>> \/ got.raised
                           THEN [pc |-> "return", ret |-> FALSE]
                           ELSE [pc |-> "index.add", file |-> c.file,
                                 chunks |-> chunks,
                                 embeddings |-> got.embeddings, save |-> o.save]
    /\ UNCHANGED <<storeVars, call, source, chunked, webVars, searcher>>

\* line 82
AdderIndexAdd ==
    /\ adder.pc = "index.add"
    /\ index' = index_add(index, adder.chunks, adder.embeddings)
    /\ adder' = [adder EXCEPT !.pc = "append"]
    /\ UNCHANGED <<documents, diskIndex, diskDocs, call, source, chunked,
                   webVars, searcher>>

\* lines 84-90, one turn of the loop
AdderAppend ==
    /\ adder.pc = "append"
    /\ documents' = append_documents(documents, <<Head(adder.chunks)>>, adder.file)
    /\ adder' = [adder EXCEPT !.chunks = Tail(adder.chunks),
                              !.pc = IF Len(adder.chunks) = 1 THEN "save"
                                     ELSE "append"]
    /\ UNCHANGED <<index, diskIndex, diskDocs, call, source, chunked,
                   webVars, searcher>>

\* line 93
AdderSave ==
    /\ adder.pc = "save"
    /\ Becomes(_save_index(State, adder.save))
    /\ adder' = [pc |-> "return", ret |-> TRUE]
    /\ UNCHANGED <<call, source, chunked, webVars, searcher>>

AdderReturn ==
    /\ adder.pc = "return"
    /\ adder' = NoThread
    /\ UNCHANGED <<storeVars, call, source, chunked, webVars, searcher>>

\* line 128: the search is called and reads index.ntotal
SearcherStart ==
    /\ searcher.pc = "idle"
    /\ \E query \in Queries, top_k \in 1..MaxTopK, embedOk \in BOOLEAN :
         searcher' = IF Len(index) = 0
                     THEN [pc |-> "return", results |-> <<>>]
                     ELSE [pc |-> "embed", query |-> query, top_k |-> top_k,
                           embedOk |-> embedOk]
    /\ UNCHANGED <<storeVars, call, source, chunked, webVars, adder>>

\* lines 132-134
SearcherEmbed ==
    /\ searcher.pc = "embed"
    /\ searcher' = IF searcher.embedOk
                   THEN [searcher EXCEPT !.pc = "index.search"]
                   ELSE [pc |-> "return", results |-> <<>>]
    /\ UNCHANGED <<storeVars, call, source, chunked, webVars, adder>>

\* line 136: index.ntotal is read again and the engine is asked
SearcherIndexSearch ==
    /\ searcher.pc = "index.search"
    /\ \E hits \in faiss_search(index, normalize_L2(Embed(searcher.query)),
                                 Min(searcher.top_k, Len(index))) :
         searcher' = [pc |-> "collect", query |-> searcher.query,
                      top_k |-> searcher.top_k, hits |-> hits]
    /\ UNCHANGED <<storeVars, call, source, chunked, webVars, adder>>

\* lines 137-147: the loop over the hits reads self.documents (the scores
\* are those the engine gave: a stored vector never changes)
SearcherCollect ==
    /\ searcher.pc = "collect"
    /\ searcher' =
          [pc |-> "return",
           results |-> CollectResults(index, documents,
                                      normalize_L2(Embed(searcher.query)),
                                      searcher.hits, 1)]
    /\ UNCHANGED <<storeVars, call, source, chunked, webVars, adder>>

SearcherReturn ==
    /\ searcher.pc = "return"
    /\ searcher' = NoThread
    /\ UNCHANGED <<storeVars, call, source, chunked, webVars, adder>>

\* a process that starts empty, with no call in progress
InitThreads ==
    /\ source = NoFile
    /\ chunked = <<>>
    /\ index = <<>>
    /\ documents = <<>>
    /\ diskIndex = AbsentIndex
    /\ diskDocs = AbsentDocs
    /\ call = NoCall
    /\ NoWeb
    /\ NoThreads

NextThreads ==
    \/ AdderStart \/ AdderIndexAdd \/ AdderAppend \/ AdderSave \/ AdderReturn
    \/ SearcherStart \/ SearcherEmbed \/ SearcherIndexSearch
    \/ SearcherCollect \/ SearcherReturn

SpecThreads == InitThreads /\ [][NextThreads]_vars

(***************************************************************************)
(* Chunker runs: process_file applied to every small plain-text content    *)
(* and to every short list of rows.                                        *)
(***************************************************************************)
SeqsUpTo(S, n) == UNION {[1..k -> S] : k \in 0..n}

TextAlphabet == {"a", SP, NL}

\* a blank line, a row of one blank cell, and two rows with text (the
\* second with an empty cell in the middle)
RowKinds == {<<>>, <<<<SP>>>>, <<<<"a">>>>, <<<<"a", SP>>, <<>>, <<"b">>>>}

Idle == /\ index = <<>>
        /\ documents = <<>>
        /\ diskIndex = AbsentIndex
        /\ diskDocs = AbsentDocs
        /\ call = NoCall
        /\ chunked = <<>>
        /\ NoWeb
        /\ NoThreads

InitTxt ==
    /\ Idle
    /\ source \in {File("./data", "notes", ".txt", t, <<>>) :
                      t \in SeqsUpTo(TextAlphabet, MaxTextLen)}

InitCsv ==
    /\ Idle
    /\ source \in {File("./data", "sizes", ".csv", <<>>, r) :
                      r \in SeqsUpTo(RowKinds, MaxRows)}

ProcessFile ==
    /\ call.op = "none"
    /\ chunked' = process_file(source, TRUE)
    /\ call' = [NoCall EXCEPT !.op = "process_file"]
    /\ UNCHANGED <<storeVars, source, webVars, threadVars>>

SpecTxt == InitTxt /\ [][ProcessFile]_vars

SpecCsv == InitCsv /\ [][ProcessFile]_vars

(***************************************************************************)
(* Properties.                                                             *)
(***************************************************************************)
QueryVector(q) == normalize_L2(Embed(q))

DiskPairAgrees ==
    \/ diskIndex.state = "absent" /\ diskDocs.state = "absent"
    \/ /\ diskIndex.state = "ok"
       /\ diskDocs.state = "ok"
       /\ diskIndex.ntotal = Len(diskDocs.items)

\* C1: in every reachable state the number of stored vectors equals the
\* length of the metadata list: get_stats reports index_size equal to
\* total_documents.
C1_SizesAgree ==
    get_stats(State).index_size = get_stats(State).total_documents

\* C2: a construction that restores two files holding different counts ends
\* with an empty index and an empty metadata list, and no search pairs a
\* metadata record with the score of a vector computed from another text.
C2_MismatchRestoresEmpty ==
    /\ (call.op = "construct" /\ call.mismatch)
          => (index = <<>> /\ documents = <<>>)
    /\ call.op = "search"
          => \A j \in 1..Len(call.results) :
                index[call.hits[call.results[j].rank]].text = call.results[j].text

\* C3: after every persist attempt, successful or not, the metadata file
\* holds as many records as the index file holds vectors.
C3_DiskCountsAgree ==
    (call.op \in {"add_documents", "load_documents_from_directory", "construct"}
     /\ call.persist # "none")
        => DiskPairAgrees

\* C4: an add_documents call that returns failure leaves the vectors, the
\* metadata list and the two files exactly as they were.
C4_FailedAddChangesNothing ==
    [][(call'.op = "add_documents" /\ ~call'.ret) => UNCHANGED storeVars]_vars

\* a later batch of a file fails at the embedding provider while the index
\* already holds vectors
C4_Witness ==
    /\ call.op = "add_documents"
    /\ ~call.ret
    /\ call.cause = "embedding"
    /\ call.failBatch = 2
    /\ index # <<>>

\* C5: in a process that starts with an empty index, the record at position
\* K (0-based) carries index_id K and belongs to the text the vector at
\* position K was computed from.
C5_IdsArePositions ==
    /\ Len(index) = Len(documents)
    /\ \A k \in 1..Len(documents) :
          /\ documents[k].index_id = k - 1
          /\ index[k].text = documents[k].text

\* records of two files are stored, the second file's after the first's
C5_Witness ==
    /\ call.op = "add_documents"
    /\ call.ret
    /\ Len(documents) = 4
    /\ documents[1].source_file # documents[4].source_file

\* C6: the chunks of a plain-text file carry chunk_index 0, 1, ..., n-1 in
\* source order, whatever blank paragraphs the file holds.
C6_ChunkIndexContiguous ==
    call.op = "process_file"
        => \A k \in 1..Len(chunked) : chunked[k].chunk_index = k - 1

CeilDiv(a, b) == (a + b - 1) \div b

\* chunks are the groups of max_lines_per_chunk consecutive lines, each
\* joined with single spaces and numbered from 0, the last group holding
\* what remains
GroupsOfLines(chunks, lines) ==
    /\ Len(chunks) = CeilDiv(Len(lines), max_lines_per_chunk)
    /\ \A k \in 1..Len(chunks) :
          /\ chunks[k].chunk_index = k - 1
          /\ chunks[k].text =
                Join(SubSeq(lines, (k - 1) * max_lines_per_chunk + 1,
                            Min(k * max_lines_per_chunk, Len(lines))),
                     <<SP>>)

\* C7 as stated: a tabular file of R rows gives ceil(R/5) chunks numbered
\* from 0, each holding the next 5 rows and the last one the remaining rows.
C7_GroupsOfRows ==
    call.op = "process_file"
        => GroupsOfLines(chunked, [k \in 1..Len(source.rows) |-> RowLine(source.rows[k])])

LinesOf(rows) ==
    SelectSeq([k \in 1..Len(rows) |-> RowLine(rows[k])], LAMBDA l : l # <<>>)

\* C7 amended: the count is taken over the rows whose line (the non-empty
\* cells, stripped, joined with " | ") is not empty; the rows with an empty
\* line are skipped.
C7_GroupsOfNonEmptyLines ==
    call.op = "process_file" => GroupsOfLines(chunked, LinesOf(source.rows))

\* seven rows of which one is skipped: a full chunk and a partial one
C7_Witness ==
    /\ call.op = "process_file"
    /\ Len(source.rows) = 7
    /\ Len(LinesOf(source.rows)) = 6
    /\ Len(chunked) = 2

\* C8: a search on N >= 1 vectors with top_k >= 1 whose query is embedded
\* returns min(top_k, N) records, by non-increasing score, each the metadata
\* of the stored vector that gave the score.
C8_TopK ==
    (call.op = "search" /\ Len(index) >= 1 /\ call.top_k >= 1 /\ call.embedOk)
        => /\ Len(call.results) = Min(call.top_k, Len(index))
           /\ \A j \in 1..Len(call.results) :
                 /\ j > 1 => call.results[j - 1].similarity_score
                                >= call.results[j].similarity_score
                 /\ call.results[j].similarity_score
                       = Score(index, QueryVector(call.query), call.hits[j])
                 /\ call.results[j].index_id = documents[call.hits[j]].index_id
                 /\ call.results[j].text = index[call.hits[j]].text

\* C9: the j-th record a search returns carries rank j.
C9_RanksAreDense ==
    call.op = "search"
        => \A j \in 1..Len(call.results) : call.results[j].rank = j

\* every answer a search may give for the query and top_k
SearchAnswers(s, q, k) == {search(s, q, h) : h \in SearchHits(s, q, k, TRUE)}

\* the two files are what a persist of the state in memory writes
Persisted == diskIndex = write_index(index) /\ diskDocs = dump(documents)

\* C10: when the two files are those of a successful persist of the state
\* in memory, a construction that restores them yields the same vectors, the
\* same metadata list, the same counts and the same search answers.
C10_RoundTrip ==
    [][(Persisted /\ call'.op = "construct" /\ call'.restored = "both")
          => /\ index' = index
             /\ documents' = documents
             /\ get_stats([index |-> index', documents |-> documents']) = get_stats(State)
             /\ \A q \in Queries, k \in 0..MaxTopK :
                   SearchAnswers([index |-> index', documents |-> documents'], q, k)
                      = SearchAnswers(State, q, k)]_vars

\* a new process has restored the files of a persisted index of two files
C10_Witness ==
    /\ call.op = "construct"
    /\ call.restored = "both"
    /\ Persisted
    /\ Len(index) = 4
    /\ Len(documents) = 4

\* the records of the metadata list, and the stored vectors, that belong to
\* chunk c of file f
RecordsOf(f, c) ==
    {k \in 1..Len(documents) :
        /\ documents[k].source_file = basename(f)
        /\ documents[k].chunk_index = c.chunk_index
        /\ documents[k].text = c.text}

VectorsOf(c) == {k \in 1..Len(index) : index[k].text = c.text}

\* C11: after the build step has run where no index was persisted and
\* nothing failed, each chunk of each qualifying file of the data directory
\* is held exactly once by the index and exactly once by the metadata list.
C11_ScannedOnce ==
    (call.op = "build_vector_index" /\ call.ret /\ call.cause = "")
        => \A e \in {DataEntries[k] : k \in 1..Len(DataEntries)} :
              Qualifies(e) =>
                 \A j \in 1..Len(process_file(e, TRUE)) :
                    /\ Cardinality(RecordsOf(e, process_file(e, TRUE)[j])) = 1
                    /\ Cardinality(VectorsOf(process_file(e, TRUE)[j])) = 1

QualifyingEntries(dir) == SelectSeq(dir.entries, Qualifies)

OtherEntries(dir) == SelectSeq(dir.entries, LAMBDA e : ~Qualifies(e))

\* C12: load_documents_from_directory hands every immediate file with
\* extension .txt, .md or .csv to add_documents, whatever the others
\* returned, and nothing else; it returns true exactly when one of these
\* calls returned true; no record of a subdirectory or of a file with
\* another extension is stored; a directory that does not exist gives false
\* and leaves the vectors, the metadata and the two files as they were.
C12_LoadFromDirectory ==
    [][call'.op = "load_documents_from_directory"
          => /\ [k \in 1..Len(call'.attempts) |-> call'.attempts[k].file]
                   = [k \in 1..Len(QualifyingEntries(call'.directory)) |->
                         basename(QualifyingEntries(call'.directory)[k])]
             /\ call'.ret <=> \E k \in 1..Len(call'.attempts) : call'.attempts[k].ret
             /\ \A k \in 1..Len(documents') :
                   \A j \in 1..Len(OtherEntries(call'.directory)) :
                      documents'[k].source_file
                         # basename(OtherEntries(call'.directory)[j])
             /\ ~call'.directory.exists
                   => (~call'.ret /\ UNCHANGED storeVars)]_vars

\* a file fails at the embedding provider and a later file of the
\* directory is loaded
C12_Witness ==
    /\ call.op = "load_documents_from_directory"
    /\ call.ret
    /\ \E i, j \in 1..Len(call.attempts) :
          /\ i < j
          /\ call.attempts[i].file = basename(Notes)
          /\ ~call.attempts[i].ret
          /\ call.attempts[j].ret
    /\ \A k \in 1..Len(documents) : documents[k].source_file = basename(Sizes)
    /\ documents # <<>>

\* C13: a search whose request for the query's embedding fails returns the
\* empty list, raises nothing, and leaves the vectors, the metadata list and
\* the two files as they were.
C13_SearchFailsSoft ==
    [][(call'.op = "search" /\ ~call'.embedOk)
          => /\ call'.results = <<>>
             /\ ~call'.raised
             /\ UNCHANGED storeVars]_vars

\* the provider fails for the query of a search on a populated index
C13_Witness ==
    /\ call.op = "search"
    /\ ~call.embedOk
    /\ call.top_k >= 1
    /\ Len(index) >= 1
    /\ Len(documents) >= 1

\* C14: a search on an index of zero vectors returns the empty list and
\* raises nothing, whatever the query and top_k.
C14_EmptyIndex ==
    (call.op = "search" /\ Len(index) = 0)
        => (call.results = <<>> /\ ~call.raised)

\* every query and every top_k has been searched on an empty index, with
\* the provider answering
C14_Witness ==
    /\ call.op = "search"
    /\ index = <<>>
    /\ call.embedOk
    /\ call.top_k = MaxTopK

\* the state in memory once the chunks of file f are added to it
WithFile(f) ==
    LET chunks == process_file(f, TRUE)
        texts == [k \in 1..Len(chunks) |-> chunks[k].text]
    IN  [index |-> index_add(index, chunks, get_embeddings(texts, 0).embeddings),
         documents |-> append_documents(documents, chunks, f)]

\* some search of the state s returns the record r
CanReturn(s, r) ==
    \E q \in Queries, k \in 1..MaxTopK :
       \E answer \in SearchAnswers(s, q, k) :
          \E j \in 1..Len(answer) :
             /\ answer[j].text = r.text
             /\ answer[j].source_file = r.source_file
             /\ answer[j].chunk_index = r.chunk_index
             /\ answer[j].index_id = r.index_id

\* C15: when a file is chunked and embedded but a write of the save fails,
\* add_documents returns success, the memory holds all the vectors and all
\* the records of the file after those it held, and a search of the same
\* process can return each of the new records.
C15_NoRollback ==
    [][(call'.op = "add_documents" /\ call'.persist \notin {"none", "ok"})
          => /\ call'.ret
             /\ \E f \in Files :
                   /\ process_file(f, TRUE) # <<>>
                   /\ index' = WithFile(f).index
                   /\ documents' = WithFile(f).documents
             /\ Len(documents') > Len(documents)
             /\ \A k \in (Len(documents) + 1)..Len(documents') :
                   CanReturn([index |-> index', documents |-> documents'],
                             documents'[k])]_vars

\* C16: when the question of a /chat request reaches the chat handler and
\* the search of the index for it gives nothing (the index is empty or the
\* query's embedding fails), the answer is the fixed text for "not found in
\* our knowledge base" and the completion service is not called.
C16_EmptySearchFallsBack ==
    (/\ reply.asked
     /\ ~IsSizeQuestion(reply.question)
     /\ (Len(index) = 0 \/ ~reply.embedOk))
        => (reply.body = "not_found" /\ ~reply.completed)

\* C17: whenever the thread in search takes a step (it reads the vector
\* count, asks the engine, or reads the metadata list) while another thread
\* is in add_documents, the vector collection and the metadata list it reads
\* have the same length.
C17_SearchSeesAlignedPair ==
    [][searcher' # searcher => Len(index) = Len(documents)]_vars

IsPrefix(a, b) == Len(a) <= Len(b) /\ SubSeq(b, 1, Len(a)) = a

\* C18: across every add_documents, load_documents_from_directory, search
\* and get_stats call, the vectors and the metadata list held before are a
\* prefix of those held after; they grow exactly when add_documents (alone
\* or inside load_documents_from_directory) succeeds; search and get_stats
\* leave them as they are, also when the caller of search writes into a
\* record it was given.
C18_AppendOnly ==
    [][call'.op \in {"add_documents", "load_documents_from_directory",
                     "search", "get_stats"}
          => /\ IsPrefix(index, index')
             /\ IsPrefix(documents, documents')
             /\ IF call'.op \in {"add_documents", "load_documents_from_directory"}
                   /\ call'.ret
                THEN Len(index') > Len(index) /\ Len(documents') > Len(documents)
                ELSE index' = index /\ documents' = documents
             /\ call'.op \in {"search", "get_stats"}
                   => (index' = index /\ documents' = documents)]_vars

\* the caller of a search on four stored chunks has overwritten the text of
\* the first record it was given
C18_Witness ==
    /\ call.op = "search"
    /\ call.results # <<>>
    /\ call.results[1].text = Scribble
    /\ Len(documents) = 4
    /\ Len(index) = 4

\* the rows of session sid
RowsOf(sid) == {k \in 1..Len(conversations) : conversations[k].session_id = sid}

\* C19: a request that is given a conversation reuses the row of its
\* session with the latest activity when the session has a row whose last
\* activity is at most IDLE_TIMEOUT before now, and only then; otherwise a
\* new row of the session, started now, is added; in both cases the row
\* given has last_activity_at = now and no other row changes; every row has
\* last_activity_at >= started_at.
C19_ReuseWithinTimeout ==
    [][/\ (reply = NoReply /\ reply'.conversation # 0)
            => LET c == reply'.conversation
                   rows == RowsOf(reply'.sid)
               IN  /\ IF \E k \in rows :
                            now - conversations[k].last_activity_at <= IDLE_TIMEOUT
                      THEN /\ c \in rows
                           /\ \A j \in rows :
                                 conversations[c].last_activity_at
                                    >= conversations[j].last_activity_at
                           /\ conversations' =
                                 [conversations EXCEPT ![c].last_activity_at = now]
                      ELSE /\ c = Len(conversations) + 1
                           /\ conversations' =
                                 Append(conversations,
                                        [id |-> c, session_id |-> reply'.sid,
                                         started_at |-> now,
                                         last_activity_at |-> now])
                   /\ conversations'[c].last_activity_at = now
       /\ \A k \in 1..Len(conversations') :
             conversations'[k].last_activity_at >= conversations'[k].started_at]_vars

\* a session whose first conversation had timed out was given a second
\* one, and a later request of the session reuses the second
C19_Witness ==
    /\ reply.reused
    /\ reply.conversation = 2
    /\ Len(conversations) = 2
    /\ conversations[1].session_id = conversations[2].session_id
    /\ conversations[2].last_activity_at > conversations[2].started_at

\* the messages of conversation c with the given role
MessagesOf(c, role) ==
    {k \in 1..Len(messages) :
        messages[k].conversation_id = c /\ messages[k].role = role}

====
